---- MODULE Spec2Model ----
(***************************************************************************)
(* Smart Expense Tracker: the sqlite-backed ExpenseDB store and the Tk     *)
(* handlers that call it (src/SmartExpenseTracker.py).                     *)
(*                                                                         *)
(* Text values are sequences of ASCII codes, so that sqlite's byte-wise    *)
(* comparison, LIKE matching and Python's strip/strptime/float can be      *)
(* modelled by what they do.  Python None / SQL NULL is the value None.    *)
(* Amounts are whole numbers.                                              *)
(***************************************************************************)
EXTENDS Integers, Sequences, FiniteSets, TLC

VARIABLES
    rows,        \* the expenses table: a set of records id, amount, category, date, note
    seq,         \* sqlite_sequence.seq of the table: the largest rowid it has ever held
    issued,      \* history: the ids add_expense has returned, in order
    deleted,     \* history: the ids of the records delete_expense has removed
    last,        \* the call or handler that ran last: its arguments and what it returned or reported
    search_var,  \* ExpenseTrackerApp.search_var, the text of the search entry
    tree,        \* ExpenseTrackerApp.tree: the id column of the rows shown, top to bottom
    dialogs      \* per expense id, the number of EditExpenseWindow dialogs open on it

vars == <<rows, seq, issued, deleted, last, search_var, tree, dialogs>>

(* ------------------------------ bounds --------------------------------- *)

\* number of add_expense calls explored in one behaviour
MaxCreates == 3

\* number of records in the stores the filtered reads are applied to
MaxQueryRows == 2

\* number of expenses added through the add form in one behaviour
MaxUIAdds == 2

\* number of edit dialogs open at once on one expense id
MaxDialogs == 1

(* --------------------------- text primitives --------------------------- *)

None == <<-1>>

\* ASCII folding as sqlite's built-in LIKE does it (A-Z only)
Lower(c) == IF c >= 65 /\ c <= 90 THEN c + 32 ELSE c

IsDigit(c) == c >= 48 /\ c <= 57

MinOf(a, b) == IF a < b THEN a ELSE b

\* BINARY collation: memcmp, a proper prefix sorts first
StrLess(a, b) ==
    \E i \in 1..(MinOf(Len(a), Len(b)) + 1) :
        /\ \A j \in 1..(i - 1) : a[j] = b[j]
        /\ \/ i > Len(a) /\ i <= Len(b)
           \/ i <= Len(a) /\ i <= Len(b) /\ a[i] < b[i]

StrLeq(a, b) == a = b \/ StrLess(a, b)

RECURSIVE Digits(_)
Digits(n) == IF n < 10 THEN <<48 + n>> ELSE Digits(n \div 10) \o <<48 + (n % 10)>>

RECURSIVE ZeroPad(_, _)
ZeroPad(s, w) == IF Len(s) >= w THEN s ELSE ZeroPad(<<48>> \o s, w)

\* Python format spec 0<w>d for n >= 0
Fmt(n, w) == ZeroPad(Digits(n), w)

\* sqlite LIKE: % any run of characters, _ exactly one, letters fold, no ESCAPE
RECURSIVE LikeMatch(_, _)
LikeMatch(p, s) ==
    IF p = <<>> THEN s = <<>>
    ELSE IF Head(p) = 37
         THEN LikeMatch(Tail(p), s) \/ (s # <<>> /\ LikeMatch(p, Tail(s)))
    ELSE IF Head(p) = 95
         THEN s # <<>> /\ LikeMatch(Tail(p), Tail(s))
    ELSE s # <<>> /\ Lower(Head(p)) = Lower(Head(s)) /\ LikeMatch(Tail(p), Tail(s))

\* column LIKE pattern; NULL LIKE x is NULL, which a WHERE clause drops
Like(col, p) == col # None /\ LikeMatch(p, col)

(* ------------------------ Python text conversions ---------------------- *)

\* str.strip() for the blank
RECURSIVE LStrip(_)
LStrip(s) == IF s # <<>> /\ Head(s) = 32 THEN LStrip(Tail(s)) ELSE s

RECURSIVE RStrip(_)
RStrip(s) == IF s # <<>> /\ s[Len(s)] = 32 THEN RStrip(SubSeq(s, 1, Len(s) - 1)) ELSE s

Strip(s) == RStrip(LStrip(s))

RECURSIVE DecVal(_)
DecVal(s) == IF s = <<>> THEN 0 ELSE 10 * DecVal(SubSeq(s, 1, Len(s) - 1)) + (s[Len(s)] - 48)

\* float(text) on a run of decimal digits; a text with any letter in it, and the
\* empty text, raise ValueError
float_ok(s) == s # <<>> /\ \A k \in 1..Len(s) : IsDigit(s[k])

float_val(s) == DecVal(s)

IsLeap(y) == (y % 4 = 0 /\ y % 100 # 0) \/ y % 400 = 0

DaysIn(y, m) ==
    IF m = 2 THEN (IF IsLeap(y) THEN 29 ELSE 28)
    ELSE IF m \in {4, 6, 9, 11} THEN 30 ELSE 31

\* the directive %m: 1[0-2] | 0[1-9] | [1-9]
MonthTok(t) ==
    \/ Len(t) = 1 /\ t[1] \in 49..57
    \/ Len(t) = 2 /\ t[1] = 48 /\ t[2] \in 49..57
    \/ Len(t) = 2 /\ t[1] = 49 /\ t[2] \in 48..50

\* the directive %d: 3[0-1] | [1-2]\d | 0[1-9] | [1-9] | blank [1-9]
DayTok(t) ==
    \/ Len(t) = 1 /\ t[1] \in 49..57
    \/ Len(t) = 2 /\ t[1] = 51 /\ t[2] \in 48..49
    \/ Len(t) = 2 /\ t[1] \in 49..50 /\ IsDigit(t[2])
    \/ Len(t) = 2 /\ t[1] = 48 /\ t[2] \in 49..57
    \/ Len(t) = 2 /\ t[1] = 32 /\ t[2] \in 49..57

\* datetime.strptime(text, "%Y-%m-%d") returns: four digits of year, the month
\* and the day as above, nothing left over, and a date of the calendar
strptime_ok(s) ==
    \E k \in {7, 8} :
        /\ Len(s) > k
        /\ \A j \in 1..4 : IsDigit(s[j])
        /\ s[5] = 45
        /\ s[k] = 45
        /\ MonthTok(SubSeq(s, 6, k - 1))
        /\ DayTok(SubSeq(s, k + 1, Len(s)))
        /\ DecVal(SubSeq(s, 1, 4)) >= 1
        /\ DecVal(LStrip(SubSeq(s, k + 1, Len(s))))
               <= DaysIn(DecVal(SubSeq(s, 1, 4)), DecVal(SubSeq(s, 6, k - 1)))

(* ------------------------------ ExpenseDB ------------------------------ *)

Ids(tbl) == {r.id : r \in tbl}

RECURSIVE MaxIn(_)
MaxIn(S) ==
    IF S = {} THEN 0
    ELSE LET x == CHOOSE y \in S : TRUE
             m == MaxIn(S \ {x})
         IN IF x > m THEN x ELSE m

\* a rowid taken without AUTOINCREMENT: one more than the largest live rowid
RowidNoAutoincrement(tbl, sq) == MaxIn(Ids(tbl)) + 1

\* INTEGER PRIMARY KEY AUTOINCREMENT: one more than the largest rowid the table
\* has ever held (sqlite_sequence.seq)
NextRowid(tbl, sq) == MaxIn(Ids(tbl) \cup {sq}) + 1

Row(i, amount, category, date_str, note) ==
    [id |-> i, amount |-> amount, category |-> category, date |-> date_str, note |-> note]

\* an INSERT that binds no note
add_expense_dropnote(tbl, sq, amount, category, date_str, note) ==
    LET i == NextRowid(tbl, sq)
    IN [rows |-> tbl \cup {Row(i, amount, category, date_str, <<>>)}, seq |-> i, ret |-> i]

\* INSERT; returns cursor.lastrowid
add_expense(tbl, sq, amount, category, date_str, note) ==
    LET i == NextRowid(tbl, sq)
    IN [rows |-> tbl \cup {Row(i, amount, category, date_str, note)}, seq |-> i, ret |-> i]

\* an update that inserts the row when no row has the id
update_expense_upsert(tbl, expense_id, amount, category, date_str, note) ==
    {r \in tbl : r.id # expense_id} \cup {Row(expense_id, amount, category, date_str, note)}

\* UPDATE ... WHERE id = ?
update_expense(tbl, expense_id, amount, category, date_str, note) ==
    {IF r.id = expense_id THEN Row(r.id, amount, category, date_str, note) ELSE r : r \in tbl}

\* DELETE ... WHERE id <= ?
delete_expense_upto(tbl, expense_id) == {r \in tbl : r.id > expense_id}

\* DELETE ... WHERE id = ?
delete_expense(tbl, expense_id) == {r \in tbl : r.id # expense_id}

\* Python truthiness of an optional text argument
Truthy(x) == x # None /\ x # <<>>

\* ORDER BY date DESC, id ASC
BeforeIdAsc(r1, r2) == StrLess(r2.date, r1.date) \/ (r1.date = r2.date /\ r1.id < r2.id)

\* ORDER BY date DESC, id DESC
Before(r1, r2) == StrLess(r2.date, r1.date) \/ (r1.date = r2.date /\ r1.id > r2.id)

RECURSIVE OrderBy(_)
OrderBy(S) ==
    IF S = {} THEN <<>>
    ELSE LET r == CHOOSE x \in S : \A y \in S \ {x} : Before(x, y) \/ ~Before(y, x)
         IN <<r>> \o OrderBy(S \ {r})

\* (category LIKE ? OR note LIKE ?) with the search wrapped in % on both sides
SearchClause(r, search) ==
    \/ Like(r.category, <<37>> \o search \o <<37>>)
    \/ Like(r.note, <<37>> \o search \o <<37>>)

\* the WHERE clause with date < end_date
WhereOpenEnd(r, search, start_date, end_date) ==
    /\ Truthy(search) => SearchClause(r, search)
    /\ Truthy(start_date) => StrLeq(start_date, r.date)
    /\ Truthy(end_date) => StrLess(r.date, end_date)

\* the WHERE clause built from the supplied filters, joined by AND
Where(r, search, start_date, end_date) ==
    /\ Truthy(search) => SearchClause(r, search)
    /\ Truthy(start_date) => StrLeq(start_date, r.date)
    /\ Truthy(end_date) => StrLeq(r.date, end_date)

fetch_expenses(tbl, search, start_date, end_date) ==
    OrderBy({r \in tbl : Where(r, search, start_date, end_date)})

RECURSIVE SumAmount(_)
SumAmount(S) ==
    IF S = {} THEN 0
    ELSE LET r == CHOOSE x \in S : TRUE IN r.amount + SumAmount(S \ {r})

MonthStart(year, month) == Fmt(year, 4) \o <<45>> \o Fmt(month, 2) \o <<45, 48, 49>>

\* first day of the next month; December rolls to January of year + 1
MonthEnd(year, month) ==
    IF month = 12
    THEN Fmt(year + 1, 4) \o <<45, 48, 49, 45, 48, 49>>
    ELSE Fmt(year, 4) \o <<45>> \o Fmt(month + 1, 2) \o <<45, 48, 49>>

\* the summary with date <= end
monthly_summary_closed(tbl, year, month) ==
    LET sel == {r \in tbl : StrLeq(MonthStart(year, month), r.date)
                              /\ StrLeq(r.date, MonthEnd(year, month))}
    IN [c \in {r.category : r \in sel} |-> SumAmount({r \in sel : r.category = c})]

\* SELECT category, SUM(amount) ... WHERE date >= start AND date < end GROUP BY category
monthly_summary(tbl, year, month) ==
    LET sel == {r \in tbl : StrLeq(MonthStart(year, month), r.date)
                              /\ StrLess(r.date, MonthEnd(year, month))}
    IN [c \in {r.category : r \in sel} |-> SumAmount({r \in sel : r.category = c})]

(* ------------------------- values the callers pass --------------------- *)

\* ISO text of a date, as the callers of the store write it
Iso(y, m, d) == Fmt(y, 4) \o <<45>> \o Fmt(m, 2) \o <<45>> \o Fmt(d, 2)

t_Food == <<70, 111, 111, 100>>    \* "Food"
t_food == <<102, 111, 111, 100>>   \* "food"
t_FOOD == <<70, 79, 79, 68>>      \* "FOOD"
t_Rent == <<82, 101, 110, 116>>   \* "Rent"
t_a_b == <<97, 95, 98>>          \* "a_b"
t_lunch == <<108, 117, 110, 99, 104>>   \* "lunch"
t_50pc == <<53, 48, 37>>        \* "50%"
t_us == <<95>>                 \* "_"
t_pc == <<37>>                 \* "%"
t_sp == <<32>>                 \* " "
t_10 == <<49, 48>>             \* "10"
t_20sp == <<32, 50, 48, 32>>   \* " 20 "
t_abc == <<97, 98, 99>>        \* "abc"
t_2024_3_1 == <<50, 48, 50, 52, 45, 51, 45, 49>>   \* "2024-3-1"

\* arguments of a store call: amount, category, date, note
Expenses ==
    { <<10, t_Food, Iso(2024, 3, 1), t_lunch>>,
      <<20, t_Food, Iso(2024, 3, 2), None>>,
      <<30, t_a_b, Iso(2024, 2, 28), t_FOOD>>,
      <<5, t_Rent, Iso(2024, 12, 31), t_50pc>>,
      <<7, t_Rent, Iso(2025, 1, 1), <<>>>> }

Searches == {None, <<>>, t_food, t_FOOD, t_us, t_pc}

StartDates == {None, Iso(2024, 3, 1), Iso(2024, 3, 2)}

EndDates == {None, <<>>, Iso(2024, 3, 1), Iso(2024, 12, 31)}

Years == {2024, 2025}

Months == 1..12

\* what the user has typed into a form: amount, category, date, note
Forms ==
    { <<t_10, t_Food, Iso(2024, 3, 1), t_lunch>>,
      <<t_20sp, t_Rent, Iso(2024, 12, 31), <<>>>>,
      <<<<>>, t_Food, Iso(2024, 3, 1), <<>>>>,
      <<t_abc, t_Food, Iso(2024, 3, 1), <<>>>>,
      <<t_10, t_sp, Iso(2024, 3, 1), <<>>>>,
      <<t_10, t_Food, Iso(2024, 2, 30), <<>>>>,
      <<t_10, t_Food, t_2024_3_1, <<>>>>,
      <<t_10, t_Food, <<>>, <<>>>> }

\* what the user has typed into the search entry
SearchTexts == {<<>>, t_food, t_sp}

ExpenseIds == 1..(MaxCreates + 1)

NoArgs == <<>>

Call(op, id, args, ret) == [op |-> op, id |-> id, args |-> args, ret |-> ret]

(* ------------------------------- state --------------------------------- *)

\* a new database file: no rows, no sqlite_sequence entry; the main window shows
\* the empty list and no dialog is open
Init ==
    /\ rows = {}
    /\ seq = 0
    /\ issued = <<>>
    /\ deleted = {}
    /\ last = Call("init", 0, NoArgs, 0)
    /\ search_var = <<>>
    /\ tree = <<>>
    /\ dialogs = [i \in ExpenseIds |-> 0]

UIUnchanged == UNCHANGED <<search_var, tree, dialogs>>

(* --------------------------- store operations -------------------------- *)

CreateUpTo(e, n) ==
    /\ Len(issued) < n
    /\ LET r == add_expense(rows, seq, e[1], e[2], e[3], e[4])
       IN /\ rows' = r.rows
          /\ seq' = r.seq
          /\ issued' = Append(issued, r.ret)
          /\ last' = Call("create", r.ret, e, r.ret)
    /\ UNCHANGED deleted
    /\ UIUnchanged

Create(e) == CreateUpTo(e, MaxCreates)

Update(i, e) ==
    /\ rows' = update_expense(rows, i, e[1], e[2], e[3], e[4])
    /\ last' = Call("update", i, e, 0)
    /\ UNCHANGED <<seq, issued, deleted>>
    /\ UIUnchanged

Delete(i) ==
    /\ rows' = delete_expense(rows, i)
    /\ deleted' = deleted \cup ({i} \cap Ids(rows))
    /\ last' = Call("delete", i, NoArgs, 0)
    /\ UNCHANGED <<seq, issued>>
    /\ UIUnchanged

List(s, sd, ed) ==
    /\ last' = Call("list", 0, <<s, sd, ed>>, fetch_expenses(rows, s, sd, ed))
    /\ UNCHANGED <<rows, seq, issued, deleted>>
    /\ UIUnchanged

MonthlySummary(y, m) ==
    /\ last' = Call("summary", 0, <<y, m>>, monthly_summary(rows, y, m))
    /\ UNCHANGED <<rows, seq, issued, deleted>>
    /\ UIUnchanged

\* create, update, delete and the unfiltered list, in any order
Next ==
    \/ \E e \in Expenses : Create(e)
    \/ \E i \in ExpenseIds, e \in Expenses : Update(i, e)
    \/ \E i \in ExpenseIds : Delete(i)
    \/ List(None, None, None)

Spec == Init /\ [][Next]_vars

\* the read operations with every combination of filters, over stores built by create
NextQuery ==
    \/ \E e \in Expenses : CreateUpTo(e, MaxQueryRows)
    \/ \E s \in Searches, sd \in StartDates, ed \in EndDates : List(s, sd, ed)
    \/ \E y \in Years, m \in Months : MonthlySummary(y, m)

SpecQuery == Init /\ [][NextQuery]_vars

(* ------------------------------ handlers ------------------------------- *)

StoreUnchanged == UNCHANGED <<rows, seq, issued, deleted>>

\* ExpenseTrackerApp.validate_date
validate_date(date_text) == strptime_ok(date_text)

\* what load_expenses puts in the tree: the id column of the rows fetched
Loaded(tbl, sv) ==
    LET out == fetch_expenses(tbl, Strip(sv), None, None)
    IN [k \in 1..Len(out) |-> out[k].id]

\* the user edits the search entry
TypeSearch(s) ==
    /\ search_var' = s
    /\ last' = Call("ui_type", 0, <<s>>, "typed")
    /\ UNCHANGED <<tree, dialogs>>
    /\ StoreUnchanged

\* ExpenseTrackerApp.load_expenses (Search, Refresh, Return in the entry)
App_load_expenses ==
    /\ tree' = Loaded(rows, search_var)
    /\ last' = Call("ui_load", 0, NoArgs, "loaded")
    /\ UNCHANGED <<search_var, dialogs>>
    /\ StoreUnchanged

\* ExpenseTrackerApp.clear_search
App_clear_search ==
    /\ search_var' = <<>>
    /\ tree' = Loaded(rows, <<>>)
    /\ last' = Call("ui_clear", 0, NoArgs, "loaded")
    /\ UNCHANGED dialogs
    /\ StoreUnchanged

\* the first check of the add form that turns the input down, or "ok"
add_check(f) ==
    IF Strip(f[1]) = <<>> THEN "warn_amount_empty"
    ELSE IF ~float_ok(Strip(f[1])) THEN "warn_amount_invalid"
    ELSE IF Strip(f[2]) = <<>> THEN "warn_category"
    ELSE IF ~validate_date(Strip(f[3])) THEN "warn_date"
    ELSE "ok"

\* ExpenseTrackerApp.add_expense
App_add_expense(f) ==
    /\ Len(issued) < MaxUIAdds
    /\ IF add_check(f) # "ok"
       THEN /\ last' = Call("ui_add", 0, f, add_check(f))
            /\ UNCHANGED <<tree, rows, seq, issued>>
       ELSE LET r == add_expense(rows, seq, float_val(Strip(f[1])), Strip(f[2]),
                                 Strip(f[3]), Strip(f[4]))
            IN /\ rows' = r.rows
               /\ seq' = r.seq
               /\ issued' = Append(issued, r.ret)
               /\ tree' = Loaded(r.rows, search_var)
               /\ last' = Call("ui_add", r.ret, f, "added")
    /\ UNCHANGED <<deleted, search_var, dialogs>>

\* ExpenseTrackerApp.edit_selected; sel = 0 when no row of the tree is selected.
\* The dialog is a Toplevel without a grab: the main window stays usable.
App_edit_selected(sel) ==
    /\ IF sel = 0
       THEN /\ last' = Call("ui_edit", 0, NoArgs, "select_first")
            /\ UNCHANGED dialogs
       ELSE /\ dialogs[tree[sel]] < MaxDialogs
            /\ dialogs' = [dialogs EXCEPT ![tree[sel]] = @ + 1]
            /\ last' = Call("ui_edit", tree[sel], NoArgs, "opened")
    /\ UNCHANGED <<search_var, tree>>
    /\ StoreUnchanged

\* ExpenseTrackerApp.delete_selected; yes is the answer to the confirmation
App_delete_selected(sel, yes) ==
    /\ IF sel = 0
       THEN /\ last' = Call("ui_delete", 0, NoArgs, "select_first")
            /\ UNCHANGED <<rows, deleted, tree>>
       ELSE IF ~yes
       THEN /\ last' = Call("ui_delete", tree[sel], NoArgs, "declined")
            /\ UNCHANGED <<rows, deleted, tree>>
       ELSE /\ rows' = delete_expense(rows, tree[sel])
            /\ deleted' = deleted \cup ({tree[sel]} \cap Ids(rows))
            /\ tree' = Loaded(delete_expense(rows, tree[sel]), search_var)
            /\ last' = Call("ui_delete", tree[sel], NoArgs, "deleted")
    /\ UNCHANGED <<seq, issued, search_var, dialogs>>

\* the first check of the edit dialog that turns the input down, or "ok"
save_check(f) ==
    IF Strip(f[1]) = <<>> THEN "warn_amount_empty"
    ELSE IF ~float_ok(Strip(f[1])) THEN "warn_amount_invalid"
    ELSE IF ~strptime_ok(Strip(f[3])) THEN "warn_date"
    ELSE "ok"

\* EditExpenseWindow.save in the dialog opened on expense eid; f is what its
\* entries hold when Save is pressed
Edit_save(eid, f) ==
    /\ dialogs[eid] > 0
    /\ IF save_check(f) # "ok"
       THEN /\ last' = Call("ui_save", eid, f, save_check(f))
            /\ UNCHANGED <<rows, tree, dialogs>>
       ELSE /\ rows' = update_expense(rows, eid, float_val(Strip(f[1])), Strip(f[2]),
                                      Strip(f[3]), Strip(f[4]))
            /\ last' = Call("ui_save", eid, f, "saved")
            /\ tree' = Loaded(update_expense(rows, eid, float_val(Strip(f[1])), Strip(f[2]),
                                             Strip(f[3]), Strip(f[4])), search_var)
            /\ dialogs' = [dialogs EXCEPT ![eid] = @ - 1]
    /\ UNCHANGED <<seq, issued, deleted, search_var>>

\* the user closes an edit dialog without saving
Edit_close(eid) ==
    /\ dialogs[eid] > 0
    /\ dialogs' = [dialogs EXCEPT ![eid] = @ - 1]
    /\ last' = Call("ui_close", eid, NoArgs, "closed")
    /\ UNCHANGED <<search_var, tree>>
    /\ StoreUnchanged

\* the user's actions in the main window and in the open dialogs, in any order
NextUI ==
    \/ \E s \in SearchTexts : TypeSearch(s)
    \/ App_load_expenses
    \/ App_clear_search
    \/ \E f \in Forms : App_add_expense(f)
    \/ \E sel \in 0..Len(tree) : App_edit_selected(sel)
    \/ \E sel \in 0..Len(tree), yes \in BOOLEAN : App_delete_selected(sel, yes)
    \/ \E eid \in ExpenseIds, f \in Forms : Edit_save(eid, f)
    \/ \E eid \in ExpenseIds : Edit_close(eid)

SpecUI == Init /\ [][NextUI]_vars

(* ------------------------ properties of the store ---------------------- *)

StrictlyIncreasing(q) == \A i, j \in 1..Len(q) : i < j => q[i] < q[j]

\* C1: every id returned by create is greater than every id returned by an
\* earlier create, also when the earlier record has been deleted since; live
\* records never share an id; update leaves the set of ids as it was.
C1_IdsIncreaseNeverReused ==
    /\ [](StrictlyIncreasing(issued) /\ Cardinality(Ids(rows)) = Cardinality(rows))
    /\ [][last'.op = "create" => (\A i \in Ids(rows) \cup deleted : last'.ret > i)]_vars
    /\ [][last'.op = "update" => Ids(rows') = Ids(rows)]_vars

\* a create that follows the deletion of the record created before it
C1_Witness ==
    /\ last.op = "create"
    /\ Len(issued) = 2
    /\ issued[1] \in deleted

\* C2: the unfiltered list holds every record of the store exactly once and
\* nothing else, by date descending and, for equal dates, by id descending.
C2_ListAllSorted ==
    (last.op = "list" /\ last.args = <<None, None, None>>) =>
        LET out == last.ret
        IN /\ {out[k] : k \in 1..Len(out)} = rows
           /\ Len(out) = Cardinality(rows)
           /\ \A i, j \in 1..Len(out) :
                  i < j => \/ StrLess(out[j].date, out[i].date)
                           \/ out[i].date = out[j].date /\ out[i].id > out[j].id

\* an unfiltered list of two records that share a date
C2_Witness ==
    /\ last.op = "list"
    /\ Len(last.ret) = 2
    /\ last.ret[1].date = last.ret[2].date

\* C6: update replaces the four fields of exactly the record with the given id
\* and keeps its id and the number of records; with no such record the store,
\* and so the list, stay as they were.
C6_UpdateFrame ==
    [][last'.op = "update" =>
          LET i == last'.id
              e == last'.args
          IN IF i \in Ids(rows)
             THEN /\ rows' = {r \in rows : r.id # i} \cup {Row(i, e[1], e[2], e[3], e[4])}
                  /\ Cardinality(rows') = Cardinality(rows)
             ELSE /\ rows' = rows
                  /\ fetch_expenses(rows', None, None, None)
                         = fetch_expenses(rows, None, None, None)]_vars

\* an update of one of two records
C6_Witness ==
    /\ last.op = "update"
    /\ last.id \in Ids(rows)
    /\ Cardinality(rows) = 2

\* C7: a deleted id is never in the store, so never listed, again; delete
\* removes the record with that id and no other, and changes nothing when the
\* id is absent.
C7_DeletedNeverReturns ==
    /\ [](Ids(rows) \cap deleted = {})
    /\ [](last.op = "list" => \A k \in 1..Len(last.ret) : last.ret[k].id \notin deleted)
    /\ [][last'.op = "delete" =>
             /\ rows' = {r \in rows : r.id # last'.id}
             /\ (last'.id \notin Ids(rows) => rows' = rows)]_vars

\* a list of a store that holds a record created after a deletion
C7_Witness ==
    /\ last.op = "list"
    /\ Len(last.ret) > 0
    /\ deleted # {}
    /\ \E i \in deleted : i \in {issued[k] : k \in 1..Len(issued)}

\* C8: create adds one record, under an id no record had, with the four fields
\* as given; the records already there are unchanged and the unfiltered list
\* holds the new record.
C8_CreateRoundTrip ==
    [][last'.op = "create" =>
          LET e == last'.args
              new == Row(last'.ret, e[1], e[2], e[3], e[4])
              out == fetch_expenses(rows', None, None, None)
          IN /\ last'.ret \notin Ids(rows)
             /\ rows' = rows \cup {new}
             /\ Cardinality(rows') = Cardinality(rows) + 1
             /\ \E k \in 1..Len(out) : out[k] = new]_vars

\* a create into a store that already holds a record
C8_Witness ==
    /\ last.op = "create"
    /\ Cardinality(rows) = 2

(* ------------------------ properties of the reads ---------------------- *)

Elements(q) == {q[k] : k \in 1..Len(q)}

\* sub occurs in s as a literal substring, letters compared without case
Contains(s, sub) ==
    \E i \in 1..(Len(s) - Len(sub) + 1) :
        \A j \in 1..Len(sub) : Lower(s[i + j - 1]) = Lower(sub[j])

SameButCase(a, b) ==
    /\ a # None /\ b # None
    /\ Len(a) = Len(b)
    /\ \A j \in 1..Len(a) : Lower(a[j]) = Lower(b[j])

\* C3: a list with a non-empty search string returns exactly the records whose
\* category or note contains the string as a literal substring without regard
\* to case ('%' and '_' included); an absent note matches nothing; strings that
\* differ only in case return the same records.
C3_SearchLiteralSubstring ==
    (last.op = "list" /\ Truthy(last.args[1])
        /\ ~Truthy(last.args[2]) /\ ~Truthy(last.args[3])) =>
        LET s == last.args[1]
        IN /\ Elements(last.ret) =
                  {r \in rows : \/ Contains(r.category, s)
                                \/ r.note # None /\ Contains(r.note, s)}
           /\ \A s2 \in Searches :
                  SameButCase(s, s2) => fetch_expenses(rows, s2, None, None) = last.ret

\* C4: a list returns exactly the records that pass every supplied filter:
\* the store's search clause, date >= start_date and date <= end_date, both
\* bounds inclusive and compared as strings; each such record is returned
\* once.  An argument that is None or empty is not supplied.
C4_FiltersConjunctive ==
    last.op = "list" =>
        LET s == last.args[1]
            sd == last.args[2]
            ed == last.args[3]
        IN /\ Elements(last.ret) =
                  {r \in rows : /\ Truthy(s) => SearchClause(r, s)
                                /\ Truthy(sd) => (r.date = sd \/ StrLess(sd, r.date))
                                /\ Truthy(ed) => (r.date = ed \/ StrLess(r.date, ed))}
           /\ Len(last.ret) = Cardinality(Elements(last.ret))

\* all three filters supplied: one record is kept and one that matches the
\* search is left out for its date
C4_Witness ==
    /\ last.op = "list"
    /\ Truthy(last.args[1]) /\ Truthy(last.args[2]) /\ Truthy(last.args[3])
    /\ Len(last.ret) = 1
    /\ \E r \in rows : /\ r \notin Elements(last.ret)
                       /\ SearchClause(r, last.args[1])
                       /\ StrLess(last.args[3], r.date)

\* C5: the monthly summary's keys are the categories with a record dated in
\* [first day of the month, first day of the next month), December rolling to
\* January of the next year; each value is the sum of those records' amounts;
\* other categories are absent and the mapping is empty when nothing matches.
C5_MonthlySummary ==
    last.op = "summary" =>
        LET y == last.args[1]
            m == last.args[2]
            lo == Iso(y, m, 1)
            hi == IF m = 12 THEN Iso(y + 1, 1, 1) ELSE Iso(y, m + 1, 1)
            in == {r \in rows : (r.date = lo \/ StrLess(lo, r.date)) /\ StrLess(r.date, hi)}
        IN /\ DOMAIN last.ret = {r.category : r \in in}
           /\ \A c \in DOMAIN last.ret :
                  last.ret[c] = SumAmount({r \in in : r.category = c})
           /\ (in = {} => last.ret = <<>>)

\* a December summary that counts the record of 31 December and leaves out the
\* record of 1 January in the same category
C5_Witness ==
    /\ last.op = "summary"
    /\ last.args = <<2024, 12>>
    /\ DOMAIN last.ret = {t_Rent}
    /\ \E r \in rows : r.date = Iso(2025, 1, 1) /\ r.category = t_Rent
    /\ \E r \in rows : r.date = Iso(2024, 12, 31) /\ last.ret[t_Rent] = r.amount

(* ----------------------- properties of the handlers -------------------- *)

\* a date text of the form YYYY-MM-DD that names a day of the calendar
IsIsoDate(s) ==
    /\ Len(s) = 10
    /\ \A j \in {1, 2, 3, 4, 6, 7, 9, 10} : IsDigit(s[j])
    /\ s[5] = 45 /\ s[8] = 45
    /\ DecVal(SubSeq(s, 1, 4)) >= 1
    /\ DecVal(SubSeq(s, 6, 7)) \in 1..12
    /\ DecVal(SubSeq(s, 9, 10)) >= 1
    /\ DecVal(SubSeq(s, 9, 10)) <= DaysIn(DecVal(SubSeq(s, 1, 4)), DecVal(SubSeq(s, 6, 7)))

\* an input the callers are to turn down: amount empty or not a number,
\* category or date empty, date malformed
BadForm(f) ==
    \/ Strip(f[1]) = <<>>
    \/ \E k \in 1..Len(Strip(f[1])) : ~IsDigit(Strip(f[1])[k])
    \/ Strip(f[2]) = <<>>
    \/ ~IsIsoDate(Strip(f[3]))

\* C9: the add form and the edit dialog turn down an input with a non-numeric
\* amount, an empty amount, category or date, or a malformed date, and leave
\* the store alone; so no record has an empty category or a date that is not
\* a valid YYYY-MM-DD text.
C9_CallersValidate ==
    /\ (last.op \in {"ui_add", "ui_save"} /\ BadForm(last.args)) =>
           last.ret \in {"warn_amount_empty", "warn_amount_invalid", "warn_category", "warn_date"}
    /\ \A r \in rows : r.category # <<>> /\ IsIsoDate(r.date)

\* C10: when the edit dialog reports the expense as updated, the store holds a
\* record with that id and the values just saved.
C10_SavedIsStored ==
    (last.op = "ui_save" /\ last.ret = "saved") =>
        Row(last.id, float_val(Strip(last.args[1])), Strip(last.args[2]),
            Strip(last.args[3]), Strip(last.args[4])) \in rows

====
